---- MODULE Spec2Model ----
(***************************************************************************)
(* Model of the 360-degree appraisal dashboard's data hook                 *)
(* (useDemoAppraisalData): the single fetch of the response rows, the      *)
(* filter state, and the derived values the hook recomputes from them      *)
(* (filteredResponses, managerSummaries, competencyScores, the two         *)
(* distributions and feedbackThemes), of the export button (ExportButton:  *)
(* its menu, its two export handlers and its score-tier histogram) and of  *)
(* the chat panel (AIChatPanel: sendMessage and the streamed reply).       *)
(*                                                                         *)
(* Representation.                                                         *)
(*  - A nullable column is an option: None (null) or Some(v).              *)
(*  - A free text is a sequence of one-character strings, so that          *)
(*    toLowerCase and trim are computed, not assumed.                      *)
(*  - A number the code rounds with toFixed(k) is held as the integer      *)
(*    number of 10^-k units (score 2.75 is 275, percentage 55.0 is 550).   *)
(*    An unrounded quotient is a fraction [n, d].  toFixed rounds an exact *)
(*    tie to the larger value; a tie of a quotient of integers needs a     *)
(*    divisor that is a multiple of 8 and is then exact in binary floating *)
(*    point unless the divisor is a multiple of 40, which the bounds       *)
(*    below do not reach.  The properties accept either neighbour at a     *)
(*    tie (IsRounded), so they do not depend on how a tie falls.           *)
(*  - filters.managers and filters.relationships are arrays the code only  *)
(*    tests with length > 0 and includes(); they are sets here.            *)
(***************************************************************************)
EXTENDS Integers, Sequences, FiniteSets, TLC

\* the data hook (useDemoAppraisalData)
VARIABLES responses, loading, error, filters, fetch

\* the export button (ExportButton): its two flags and the export attempts made
VARIABLES isOpen, exporting, exports

\* the chat panel (AIChatPanel): its state (chatLoading is the panel's own
\* loading flag), the sendMessage call in flight, and the clock Date.now() reads
VARIABLES messages, input, chatLoading, request, now

hookVars == <<responses, loading, error, filters, fetch>>

exportVars == <<isOpen, exporting, exports>>

chatVars == <<messages, input, chatLoading, request, now>>

vars == <<hookVars, exportVars, chatVars>>

(***************************************************************************)
(* Bounds and program constants                                            *)
(***************************************************************************)
\* the largest number of rows the backend returns
MaxRows == 3

\* the largest number of export attempts
MaxExports == 2

\* the largest number of chat requests sent
MaxSends == 2

\* the largest number of characters streamed into one assistant message
MaxContent == 4

\* the latest millisecond Date.now() returns
MaxClock == 1

\* const maxScore = 5 (competencyScores) and the upper end of the histogram
ScoreMax == 5

(***************************************************************************)
(* Options, truthiness                                                     *)
(***************************************************************************)
None == <<>>

Some(v) == <<v>>

\* JavaScript truthiness of a string | null: null and "" are falsy
TruthyString(o) == o # None /\ o[1] # ""

\* JavaScript truthiness of a text (a sequence of characters) | null
TruthyText(o) == o # None /\ o[1] # <<>>

(***************************************************************************)
(* The competency catalog and the three category buckets                   *)
(***************************************************************************)
competencies ==
  << [key |-> "empowers_team_score",        name |-> "Empowers Team"],
     [key |-> "mentors_coaches_score",      name |-> "Mentors & Coaches"],
     [key |-> "effective_direction_score",  name |-> "Effective Direction"],
     [key |-> "establishes_rapport_score",  name |-> "Establishes Rapport"],
     [key |-> "sets_clear_goals_score",     name |-> "Sets Clear Goals"],
     [key |-> "open_to_ideas_score",        name |-> "Open to Ideas"],
     [key |-> "sense_of_urgency_score",     name |-> "Sense of Urgency"],
     [key |-> "analyzes_change_score",      name |-> "Analyzes Change"],
     [key |-> "final_say_score",            name |-> "Final Say"],
     [key |-> "confidence_integrity_score", name |-> "Confidence & Integrity"],
     [key |-> "patient_humble_score",       name |-> "Patient & Humble"],
     [key |-> "flat_collaborative_score",   name |-> "Flat & Collaborative"],
     [key |-> "approachable_score",         name |-> "Approachable"] >>

scoreKeys ==
  << "empowers_team_score", "mentors_coaches_score", "effective_direction_score",
     "establishes_rapport_score", "sets_clear_goals_score", "open_to_ideas_score",
     "sense_of_urgency_score", "analyzes_change_score", "final_say_score",
     "confidence_integrity_score", "patient_humble_score", "flat_collaborative_score",
     "approachable_score" >>

teamLeadershipKeys ==
  << "empowers_team_score", "mentors_coaches_score", "effective_direction_score",
     "establishes_rapport_score", "sets_clear_goals_score" >>

resultsOrientationKeys ==
  << "open_to_ideas_score", "sense_of_urgency_score", "analyzes_change_score",
     "final_say_score" >>

culturalFitKeys ==
  << "confidence_integrity_score", "patient_humble_score", "flat_collaborative_score",
     "approachable_score" >>

\* the columns of a row that the hook's computations read
ResponseFields ==
  {"id", "manager_name", "relationship", "stop_doing", "start_doing", "continue_doing"}
    \cup {scoreKeys[i] : i \in 1..Len(scoreKeys)}

(***************************************************************************)
(* The backend table: the rows the query can return                        *)
(***************************************************************************)
\* manager names in the order of ORDER BY manager_name ASC
ManagerNames == <<"Alice", "Bob", "Cara">>

ManagerRank(name) == CHOOSE i \in 1..Len(ManagerNames) : ManagerNames[i] = name

Relationships == {"Peer", "Direct Report"}

NoScores == [k \in {scoreKeys[i] : i \in 1..Len(scoreKeys)} |-> None]

NoFeedback == [stop_doing |-> None, start_doing |-> None, continue_doing |-> None]

\* a row without its id: manager, relationship, the 13 scores, the three texts
MakeRow(manager, relationship, scores, feedback) ==
  [manager_name |-> manager, relationship |-> relationship] @@ scores @@ feedback

\* the tables of at most MaxRows rows over a pool of rows, in the order the
\* query returns them (manager_name ascending); the id is the row's position
TablesOver(pool) ==
  UNION { { [i \in 1..n |-> [id |-> i] @@ f[i]] :
              f \in { g \in [1..n -> pool] :
                        \A i \in 1..n : \A j \in 1..n :
                          i < j => ManagerRank(g[i].manager_name)
                                     <= ManagerRank(g[j].manager_name) } } :
          n \in 0..MaxRows }

(***************************************************************************)
(* Filter state                                                            *)
(***************************************************************************)
InitialFilters == [managers |-> {}, relationships |-> {}, scoreRange |-> <<1, 4>>]

ScoreRanges == { <<1, 4>>, <<2, 3>> }

FilterStatesOver(managers, relationships, ranges) ==
  [managers : SUBSET managers, relationships : SUBSET relationships, scoreRange : ranges]

(***************************************************************************)
(* filteredResponses                                                       *)
(***************************************************************************)
\* variant: the manager test without its length guard
filterPredicateUnguarded(response, f) ==
  IF response.manager_name \notin f.managers
    THEN FALSE
  ELSE IF /\ f.relationships # {}
          /\ TruthyString(response.relationship)
          /\ response.relationship[1] \notin f.relationships
    THEN FALSE
  ELSE TRUE

\* variant: the manager test left out
filterPredicateOfRelationship(response, f) ==
  IF /\ f.relationships # {}
     /\ TruthyString(response.relationship)
     /\ response.relationship[1] \notin f.relationships
    THEN FALSE
  ELSE TRUE

\* variant: a response with a score outside filters.scoreRange is dropped too
filterPredicateInScoreRange(response, f) ==
  IF f.managers # {} /\ response.manager_name \notin f.managers
    THEN FALSE
  ELSE IF /\ f.relationships # {}
          /\ TruthyString(response.relationship)
          /\ response.relationship[1] \notin f.relationships
    THEN FALSE
  ELSE \A i \in 1..Len(scoreKeys) :
         response[scoreKeys[i]] # None =>
           /\ response[scoreKeys[i]][1] >= f.scoreRange[1]
           /\ response[scoreKeys[i]][1] <= f.scoreRange[2]

filterPredicate(response, f) ==
  IF f.managers # {} /\ response.manager_name \notin f.managers
    THEN FALSE
  ELSE IF /\ f.relationships # {}
          /\ TruthyString(response.relationship)
          /\ response.relationship[1] \notin f.relationships
    THEN FALSE
  ELSE TRUE

filterResponses(rs, f) ==
  LET keep(response) == filterPredicate(response, f) IN SelectSeq(rs, keep)

filteredResponses == filterResponses(responses, filters)

(***************************************************************************)
(* Arithmetic: fractions, avg, toFixed                                     *)
(***************************************************************************)
Frac(n, d) == [n |-> n, d |-> d]

FracOfInt(x) == Frac(x, 1)

FracAdd(a, b) == Frac(a.n * b.d + b.n * a.d, a.d * b.d)

FracDivInt(a, k) == Frac(a.n, a.d * k)

FracMulInt(a, k) == Frac(a.n * k, a.d)

FracPositive(a) == a.n > 0

RECURSIVE Pow10(_)
Pow10(k) == IF k = 0 THEN 1 ELSE 10 * Pow10(k - 1)

\* parseFloat(x.toFixed(digits)) for x >= 0, in units of 10^-digits:
\* the nearest multiple, an exact tie going to the larger one
ToFixed(x, digits) == (2 * x.n * Pow10(digits) + x.d) \div (2 * x.d)

\* arr.reduce((a, b) => a + b, 0) over fractions
RECURSIVE ReduceAdd(_)
ReduceAdd(arr) ==
  IF arr = <<>> THEN FracOfInt(0)
  ELSE FracAdd(ReduceAdd(SubSeq(arr, 1, Len(arr) - 1)), arr[Len(arr)])

\* const avg = (arr) => arr.length ? arr.reduce(...) / arr.length : 0
avg(arr) ==
  IF Len(arr) # 0 THEN FracDivInt(ReduceAdd(arr), Len(arr)) ELSE FracOfInt(0)

(***************************************************************************)
(* managerSummaries                                                        *)
(***************************************************************************)
\* a Map<string, AppraisalResponse[]> is the sequence of its entries in
\* insertion order
MapHas(m, k) == \E i \in 1..Len(m) : m[i].key = k

MapGet(m, k) == m[CHOOSE i \in 1..Len(m) : m[i].key = k].value

\* variant: set() never finds the key
MapSetAppending(m, k, v) == Append(m, [key |-> k, value |-> v])

MapSet(m, k, v) ==
  IF MapHas(m, k)
    THEN [i \in 1..Len(m) |-> IF m[i].key = k THEN [key |-> k, value |-> v] ELSE m[i]]
    ELSE Append(m, [key |-> k, value |-> v])

\* variant: the group starts afresh at every response
RECURSIVE managerGroupsRestarting(_)
managerGroupsRestarting(rs) ==
  IF rs = <<>> THEN <<>>
  ELSE LET groups   == managerGroupsRestarting(SubSeq(rs, 1, Len(rs) - 1))
           response == rs[Len(rs)]
       IN  MapSet(groups, response.manager_name, <<response>>)

\* filteredResponses.forEach(response => { existing = get || []; push; set })
RECURSIVE managerGroups(_)
managerGroups(rs) ==
  IF rs = <<>> THEN <<>>
  ELSE LET groups   == managerGroups(SubSeq(rs, 1, Len(rs) - 1))
           response == rs[Len(rs)]
           existing == IF MapHas(groups, response.manager_name)
                         THEN MapGet(groups, response.manager_name)
                         ELSE <<>>
       IN  MapSet(groups, response.manager_name, Append(existing, response))

\* variant: a null score is pushed as 0
RECURSIVE pushScoresNullAsZero(_, _)
pushScoresNullAsZero(r, keys) ==
  IF keys = <<>> THEN <<>>
  ELSE LET rest == pushScoresNullAsZero(r, SubSeq(keys, 1, Len(keys) - 1))
           s    == r[keys[Len(keys)]]
       IN  IF s # None THEN Append(rest, FracOfInt(s[1])) ELSE Append(rest, FracOfInt(0))

\* [r.k1, r.k2, ...].forEach(s => { if (s != null) scores.push(s) }) for one response
RECURSIVE pushScores(_, _)
pushScores(r, keys) ==
  IF keys = <<>> THEN <<>>
  ELSE LET rest == pushScores(r, SubSeq(keys, 1, Len(keys) - 1))
           s    == r[keys[Len(keys)]]
       IN  IF s # None THEN Append(rest, FracOfInt(s[1])) ELSE rest

\* responses.forEach(r => ...) : the bucket's values over all the group's responses
RECURSIVE bucketScores(_, _)
bucketScores(rs, keys) ==
  IF rs = <<>> THEN <<>>
  ELSE bucketScores(SubSeq(rs, 1, Len(rs) - 1), keys) \o pushScores(rs[Len(rs)], keys)

\* variant: the mean of the responses' own means
RECURSIVE meansPerResponse(_, _)
meansPerResponse(rs, keys) ==
  IF rs = <<>> THEN <<>>
  ELSE LET rest == meansPerResponse(SubSeq(rs, 1, Len(rs) - 1), keys)
           own  == pushScores(rs[Len(rs)], keys)
       IN  IF own # <<>> THEN Append(rest, avg(own)) ELSE rest

categoryAveragesOfMeans(rs) ==
  << avg(meansPerResponse(rs, teamLeadershipKeys)),
     avg(meansPerResponse(rs, resultsOrientationKeys)),
     avg(meansPerResponse(rs, culturalFitKeys)) >>

\* the three category averages, in the order TL, RO, CF
categoryAverages(rs) ==
  << avg(bucketScores(rs, teamLeadershipKeys)),
     avg(bucketScores(rs, resultsOrientationKeys)),
     avg(bucketScores(rs, culturalFitKeys)) >>

\* variant: the three averages are averaged without the filter
overallScoreOfAll(avgs) == avg(avgs)

\* avg([avgTL, avgRO, avgCF].filter(s => s > 0))
overallScore(avgs) == avg(SelectSeq(avgs, FracPositive))

summaryOf(managerName, rs) ==
  LET avgs == categoryAverages(rs) IN
  [manager_name            |-> managerName,
   total_responses         |-> Len(rs),
   avg_team_leadership     |-> ToFixed(avgs[1], 2),
   avg_results_orientation |-> ToFixed(avgs[2], 2),
   avg_cultural_fit        |-> ToFixed(avgs[3], 2),
   overall_score           |-> ToFixed(overallScore(avgs), 2),
   responses               |-> rs]

\* variant: the comparator the other way round
compareSummariesAscending(a, b) == a.overall_score - b.overall_score

\* the comparator of summaries.sort: b.overall_score - a.overall_score
compareSummaries(a, b) == b.overall_score - a.overall_score

\* Array.prototype.sort is stable: x goes after every element it does not
\* have to precede
RECURSIVE InsertSorted(_, _)
InsertSorted(sorted, x) ==
  IF sorted = <<>> THEN <<x>>
  ELSE IF compareSummaries(sorted[Len(sorted)], x) <= 0
    THEN Append(sorted, x)
    ELSE Append(InsertSorted(SubSeq(sorted, 1, Len(sorted) - 1), x), sorted[Len(sorted)])

RECURSIVE sortSummaries(_)
sortSummaries(summaries) ==
  IF summaries = <<>> THEN <<>>
  ELSE InsertSorted(sortSummaries(SubSeq(summaries, 1, Len(summaries) - 1)),
                    summaries[Len(summaries)])

computeManagerSummaries(rs) ==
  LET groups == managerGroups(rs) IN
  sortSummaries([i \in 1..Len(groups) |-> summaryOf(groups[i].key, groups[i].value)])

managerSummaries == computeManagerSummaries(filteredResponses)

(***************************************************************************)
(* competencyScores                                                        *)
(***************************************************************************)
\* filteredResponses.map(r => r[key]).filter(s => s != null)
RECURSIVE scoresOfKey(_, _)
scoresOfKey(rs, key) ==
  IF rs = <<>> THEN <<>>
  ELSE LET rest == scoresOfKey(SubSeq(rs, 1, Len(rs) - 1), key)
           s    == rs[Len(rs)][key]
       IN  IF s # None THEN Append(rest, FracOfInt(s[1])) ELSE rest

\* variant: the percentage over a 4-point scale
competencyScoreOfFour(comp, rs) ==
  LET average    == avg(scoresOfKey(rs, comp.key))
      maxScore   == ScoreMax
      percentage == FracMulInt(FracDivInt(average, maxScore - 1), 100)
  IN  [name       |-> comp.name,
       score      |-> ToFixed(average, 2),
       maxScore   |-> maxScore,
       percentage |-> ToFixed(percentage, 1)]

competencyScoreOf(comp, rs) ==
  LET average    == avg(scoresOfKey(rs, comp.key))
      maxScore   == ScoreMax
      percentage == FracMulInt(FracDivInt(average, maxScore), 100)
  IN  [name       |-> comp.name,
       score      |-> ToFixed(average, 2),
       maxScore   |-> maxScore,
       percentage |-> ToFixed(percentage, 1)]

\* variant: only the competencies that have a score are listed
computeCompetencyScoresOfScored(rs) ==
  LET scored(comp) == scoresOfKey(rs, comp.key) # <<>>
      listed == SelectSeq(competencies, scored)
  IN  [i \in 1..Len(listed) |-> competencyScoreOf(listed[i], rs)]

computeCompetencyScores(rs) ==
  [i \in 1..Len(competencies) |-> competencyScoreOf(competencies[i], rs)]

competencyScores == computeCompetencyScores(filteredResponses)

(***************************************************************************)
(* relationshipDistribution: a Record<string, number>, here a function     *)
(* whose domain is the set of keys                                         *)
(***************************************************************************)
emptyRelationshipDistribution == [k \in {} |-> 0]

\* variant: a falsy relationship is counted under 'Unknown'
countRelationshipOrUnknown(distribution, r) ==
  LET k == IF TruthyString(r.relationship) THEN r.relationship[1] ELSE "Unknown" IN
  [key \in DOMAIN distribution \cup {k} |->
     IF key = k
       THEN (IF k \in DOMAIN distribution THEN distribution[k] ELSE 0) + 1
       ELSE distribution[key]]

\* if (r.relationship) distribution[r.relationship] = (distribution[r.relationship] || 0) + 1
countRelationship(distribution, r) ==
  IF TruthyString(r.relationship)
    THEN LET k == r.relationship[1] IN
         [key \in DOMAIN distribution \cup {k} |->
            IF key = k
              THEN (IF k \in DOMAIN distribution THEN distribution[k] ELSE 0) + 1
              ELSE distribution[key]]
    ELSE distribution

RECURSIVE computeRelationshipDistribution(_)
\* filteredResponses.forEach(...), in order
computeRelationshipDistribution(rs) ==
  IF rs = <<>> THEN emptyRelationshipDistribution
  ELSE countRelationship(computeRelationshipDistribution(SubSeq(rs, 1, Len(rs) - 1)),
                         rs[Len(rs)])

relationshipDistribution == computeRelationshipDistribution(filteredResponses)

(***************************************************************************)
(* scoreDistribution                                                       *)
(***************************************************************************)
\* Number.prototype.toString of a one-digit integer
NumberToString(n) ==
  CASE n = 0 -> "0" [] n = 1 -> "1" [] n = 2 -> "2" [] n = 3 -> "3" [] n = 4 -> "4"
    [] n = 5 -> "5" [] n = 6 -> "6" [] n = 7 -> "7" [] n = 8 -> "8" [] n = 9 -> "9"

emptyScoreDistribution == [b \in {"1", "2", "3", "4", "5"} |-> 0]

\* variant: the lower end of the range is excluded
countScoreAboveOne(distribution, score) ==
  IF score # None /\ score[1] > 1 /\ score[1] <= ScoreMax
    THEN [distribution EXCEPT ![NumberToString(score[1])] = @ + 1]
    ELSE distribution

\* if (score != null && score >= 1 && score <= 5) distribution[score.toString()] += 1
countScore(distribution, score) ==
  IF score # None /\ score[1] >= 1 /\ score[1] <= ScoreMax
    THEN [distribution EXCEPT ![NumberToString(score[1])] = @ + 1]
    ELSE distribution

\* scoreKeys.forEach(key => ...) for one response
RECURSIVE countScoresOfResponse(_, _, _)
countScoresOfResponse(distribution, r, keys) ==
  IF keys = <<>> THEN distribution
  ELSE countScore(countScoresOfResponse(distribution, r, SubSeq(keys, 1, Len(keys) - 1)),
                  r[keys[Len(keys)]])

RECURSIVE computeScoreDistribution(_)
computeScoreDistribution(rs) ==
  IF rs = <<>> THEN emptyScoreDistribution
  ELSE countScoresOfResponse(computeScoreDistribution(SubSeq(rs, 1, Len(rs) - 1)),
                             rs[Len(rs)], scoreKeys)

scoreDistribution == computeScoreDistribution(filteredResponses)

(***************************************************************************)
(* feedbackThemes                                                          *)
(***************************************************************************)
\* String.prototype.toLowerCase, character by character
LowerCaseChar(c) == CASE c = "A" -> "a" [] c = "B" -> "b" [] OTHER -> c

toLowerCase(text) == [i \in 1..Len(text) |-> LowerCaseChar(text[i])]

IsWhiteSpace(c) == c \in {" ", "\n"}

\* String.prototype.trim: without the leading and trailing white space
RECURSIVE trimStart(_)
trimStart(text) ==
  IF text # <<>> /\ IsWhiteSpace(Head(text)) THEN trimStart(Tail(text)) ELSE text

RECURSIVE trimEnd(_)
trimEnd(text) ==
  IF text # <<>> /\ IsWhiteSpace(text[Len(text)])
    THEN trimEnd(SubSeq(text, 1, Len(text) - 1))
    ELSE text

trim(text) == trimEnd(trimStart(text))

emptyThemes == [seen |-> {}, stopDoing |-> <<>>, startDoing |-> <<>>, continueDoing |-> <<>>]

\* variant: the text is compared without trimming
visitFeedbackUntrimmed(acc, text, list) ==
  IF TruthyText(text)
    THEN LET normalized == toLowerCase(text[1]) IN
         IF normalized \notin acc.seen
           THEN [acc EXCEPT !.seen = @ \cup {normalized},
                            ![list] = Append(@, trim(text[1]))]
           ELSE acc
    ELSE acc

\* if (text) { normalized = text.toLowerCase().trim();
\*             if (!seen.has(normalized)) { seen.add(normalized); list.push(text.trim()) } }
visitFeedback(acc, text, list) ==
  IF TruthyText(text)
    THEN LET normalized == trim(toLowerCase(text[1])) IN
         IF normalized \notin acc.seen
           THEN [acc EXCEPT !.seen = @ \cup {normalized},
                            ![list] = Append(@, trim(text[1]))]
           ELSE acc
    ELSE acc

visitResponse(acc, r) ==
  visitFeedback(
    visitFeedback(
      visitFeedback(acc, r.stop_doing, "stopDoing"),
      r.start_doing, "startDoing"),
    r.continue_doing, "continueDoing")

RECURSIVE collectThemes(_)
collectThemes(rs) ==
  IF rs = <<>> THEN emptyThemes
  ELSE visitResponse(collectThemes(SubSeq(rs, 1, Len(rs) - 1)), rs[Len(rs)])

computeFeedbackThemes(rs) ==
  LET acc == collectThemes(rs) IN
  [stopDoing |-> acc.stopDoing, startDoing |-> acc.startDoing,
   continueDoing |-> acc.continueDoing]

feedbackThemes == computeFeedbackThemes(filteredResponses)

(***************************************************************************)
(* The exporters' score-tier histogram (getScoreDistribution of the export *)
(* button), over the manager summaries; min and max in hundredths          *)
(***************************************************************************)
ranges ==
  << [label |-> "Exceptional (3.5-4.0)",        min |-> 350, max |-> 400],
     [label |-> "Strong (3.0-3.49)",            min |-> 300, max |-> 349],
     [label |-> "Developing (2.5-2.99)",        min |-> 250, max |-> 299],
     [label |-> "Needs Improvement (2.0-2.49)", min |-> 200, max |-> 249],
     [label |-> "Critical (<2.0)",              min |-> 0,   max |-> 199] >>

\* managers.filter(m => m.overall_score >= range.min && m.overall_score <= range.max)
managersInRange(managers, range) ==
  LET within(m) == m.overall_score >= range.min /\ m.overall_score <= range.max
  IN  SelectSeq(managers, within)

\* ranges.map(range => ({ ...range, count, managers: names }))
getScoreDistribution(managers) ==
  [i \in 1..Len(ranges) |->
     LET inRange == managersInRange(managers, ranges[i]) IN
     [label    |-> ranges[i].label,
      min      |-> ranges[i].min,
      max      |-> ranges[i].max,
      count    |-> Len(inRange),
      managers |-> [k \in 1..Len(inRange) |-> inRange[k].manager_name]]]

\* the tier printed in the rankings tables of both exporters:
\* m.overall_score >= 3.5 ? 'Exceptional' : m.overall_score >= 3.0 ? 'Strong'
\*   : m.overall_score >= 2.5 ? 'Developing' : 'Needs Improvement'
performanceTier(overall_score) ==
  IF overall_score >= 350 THEN "Exceptional"
  ELSE IF overall_score >= 300 THEN "Strong"
  ELSE IF overall_score >= 250 THEN "Developing"
  ELSE "Needs Improvement"

\* managers.sort((a, b) => b.overall_score - a.overall_score).map((m, i) => row):
\* the rank, the name, the overall score and the tier of a rankings row
rankingData(managers) ==
  LET sorted == sortSummaries(managers) IN
  [i \in 1..Len(sorted) |->
     [rank          |-> i,
      manager_name  |-> sorted[i].manager_name,
      overall_score |-> sorted[i].overall_score,
      tier          |-> performanceTier(sorted[i].overall_score)]]

\* [...seq].reverse()
reverse(seq) == [i \in 1..Len(seq) |-> seq[Len(seq) + 1 - i]]

\* function getTopAndBottomPerformers(managers, count): sorted by
\* overall_score descending; top = sorted.slice(0, count),
\* bottom = sorted.slice(-count).reverse()
getTopAndBottomPerformers(managers, count) ==
  LET sorted == sortSummaries(managers)
      n == Len(sorted)
  IN [top    |-> SubSeq(sorted, 1, IF count < n THEN count ELSE n),
      bottom |-> reverse(SubSeq(sorted, (IF n - count > 0 THEN n - count ELSE 0) + 1, n))]

\* the body of the 'MANAGERS REQUIRING DEVELOPMENT' table of exportToPDF:
\* bottom.map((m, i) => [`#${managers.length - 4 + i}`, m.manager_name, ...]),
\* i from 0
developmentTable(managers) ==
  LET bottom == getTopAndBottomPerformers(managers, 5).bottom IN
  [k \in 1..Len(bottom) |->
     [rank         |-> Len(managers) - 4 + (k - 1),
      manager_name |-> bottom[k].manager_name]]

\* a / b of the exporters' summary lines, b a length: there is no guard on b,
\* and a fraction with denominator 0 stands for what the division gives then
\* (0 / 0 is NaN, and NaN * 100, NaN.toFixed(k) stay NaN)
divide(a, b) == FracDivInt(a, b)

\* managers.reduce((a, m) => a + m.overall_score, 0) / managers.length, and the
\* same for avg_team_leadership, avg_results_orientation, avg_cultural_fit
organisationAverage(managers, field) ==
  divide(ReduceAdd([i \in 1..Len(managers) |-> FracOfInt(managers[i][field])]),
         Len(managers))

\* 'Average Responses per Manager:', responses.length / managers.length
averageResponsesPerManager(managers, rs) ==
  divide(FracOfInt(Len(rs)), Len(managers))

\* the percentage column of the tier tables: (d.count / managers.length) * 100
tierPercentages(managers) ==
  LET distribution == getScoreDistribution(managers) IN
  [i \in 1..Len(distribution) |->
     FracMulInt(divide(FracOfInt(distribution[i].count), Len(managers)), 100)]

RECURSIVE relationshipBreakdownCounts(_)
\* responses.forEach(r => { const rel = r.relationship || 'Unknown';
\*                          breakdown[rel] = (breakdown[rel] || 0) + 1 })
relationshipBreakdownCounts(rs) ==
  IF rs = <<>> THEN [k \in {} |-> 0]
  ELSE LET breakdown == relationshipBreakdownCounts(SubSeq(rs, 1, Len(rs) - 1))
           r   == rs[Len(rs)]
           rel == IF TruthyString(r.relationship) THEN r.relationship[1] ELSE "Unknown"
       IN [key \in DOMAIN breakdown \cup {rel} |->
             IF key = rel
               THEN (IF rel \in DOMAIN breakdown THEN breakdown[rel] ELSE 0) + 1
               ELSE breakdown[key]]

\* function getRelationshipBreakdown(responses): one entry per relationship
\* counted, held by relationship name
getRelationshipBreakdown(rs) ==
  LET breakdown == relationshipBreakdownCounts(rs) IN
  [name \in DOMAIN breakdown |->
     [relationship |-> name,
      count        |-> breakdown[name],
      percentage   |-> FracMulInt(divide(FracOfInt(breakdown[name]), Len(rs)), 100)]]

\* the exporters' own competency catalog (const competencies of
\* calculateCompetencyScores), in its own order
exportCompetencies ==
  << [key |-> "mentors_coaches_score",      name |-> "Mentors & Coaches"],
     [key |-> "effective_direction_score",  name |-> "Effective Direction"],
     [key |-> "establishes_rapport_score",  name |-> "Establishes Rapport"],
     [key |-> "sets_clear_goals_score",     name |-> "Sets Clear Goals"],
     [key |-> "open_to_ideas_score",        name |-> "Open to Ideas"],
     [key |-> "sense_of_urgency_score",     name |-> "Sense of Urgency"],
     [key |-> "analyzes_change_score",      name |-> "Analyzes Change"],
     [key |-> "confidence_integrity_score", name |-> "Confidence & Integrity"],
     [key |-> "patient_humble_score",       name |-> "Patient & Humble"],
     [key |-> "flat_collaborative_score",   name |-> "Flat & Collaborative"],
     [key |-> "approachable_score",         name |-> "Approachable"],
     [key |-> "empowers_team_score",        name |-> "Empowers Team"],
     [key |-> "final_say_score",            name |-> "Final Say Balance"] >>

\* Math.min(...scores) and Math.max(...scores) of a non-empty list of integer scores
MathMin(scores) ==
  CHOOSE v \in {scores[i].n : i \in 1..Len(scores)} :
    \A i \in 1..Len(scores) : v <= scores[i].n

MathMax(scores) ==
  CHOOSE v \in {scores[i].n : i \in 1..Len(scores)} :
    \A i \in 1..Len(scores) : v >= scores[i].n

\* calculateCompetencyScores(responses): avg and percentage are not rounded here
calculateCompetencyScores(rs) ==
  [i \in 1..Len(exportCompetencies) |->
     LET c         == exportCompetencies[i]
         scores    == scoresOfKey(rs, c.key)
         average   == IF Len(scores) > 0 THEN FracDivInt(ReduceAdd(scores), Len(scores))
                                         ELSE FracOfInt(0)
     IN  [name       |-> c.name,
          avg        |-> average,
          min        |-> IF Len(scores) > 0 THEN MathMin(scores) ELSE 0,
          max        |-> IF Len(scores) > 0 THEN MathMax(scores) ELSE 0,
          count      |-> Len(scores),
          percentage |-> FracMulInt(FracDivInt(average, 4), 100)]]

(***************************************************************************)
(* The chat panel (AIChatPanel).  A message is [id, role, content]; an id  *)
(* is the number Date.now() gave (its toString is one-to-one), a content   *)
(* is a sequence of characters.  sendMessage is an async function: its     *)
(* steps are the parts between two awaits, and the state updates of one    *)
(* part are rendered together.                                             *)
(***************************************************************************)
\* text.replace(/\n{3,}/g, '\n\n'): the length of the run of newlines at the head
RECURSIVE newlineRun(_)
newlineRun(text) ==
  IF text # <<>> /\ Head(text) = "\n" THEN 1 + newlineRun(Tail(text)) ELSE 0

RECURSIVE collapseNewlines(_)
collapseNewlines(text) ==
  IF text = <<>> THEN <<>>
  ELSE LET run == newlineRun(text) IN
       IF run >= 3
         THEN <<"\n", "\n">> \o collapseNewlines(SubSeq(text, run + 1, Len(text)))
         ELSE <<Head(text)>> \o collapseNewlines(Tail(text))

\* const formatResponse = (text) => text.replace(/\n{3,}/g, '\n\n').trim()
formatResponse(text) == trim(collapseNewlines(text))

\* the content of the error notice of the catch block, held as one token
errorNotice == <<"I apologize, but I encountered an error. Please try again.">>

\* the question of a suggestion chip, held as one token
suggestionQuestion == <<"Who received the most reviews?">>

\* the texts typed into the input
Inputs == { <<>>, <<" ">>, <<"h", "i">> }

\* the lines of a decoded chunk (chunk.split('\n')): an event line
\* 'data: {json}' whose delta content is content (None when the json has
\* none), the line 'data: [DONE]', a line that does not start with 'data: ',
\* and a line 'data: ...' whose rest is not JSON
EventLine(content) == [kind |-> "event", content |-> content]

DoneLine == [kind |-> "done", content |-> None]

OtherLine == [kind |-> "other", content |-> None]

BrokenLine == [kind |-> "broken", content |-> None]

\* the two pieces of an event line that a chunk boundary cuts: the head ends
\* one chunk (a strict prefix of 'data: {json}': it does not start with
\* 'data: ' or its rest is not JSON) and the tail starts the next chunk (it
\* does not start with 'data: ')
HeadOfEventLine(content) == [kind |-> "head", content |-> content]

TailOfEventLine == [kind |-> "tail", content |-> None]

\* the chunks a read of the response body can deliver
Chunks ==
  { << EventLine(Some(<<"a">>)), OtherLine, OtherLine >>,
    << EventLine(Some(<<"\n", "\n", "\n">>)), OtherLine, EventLine(Some(<<"b">>)) >>,
    << BrokenLine, EventLine(None), EventLine(Some(<<>>)) >>,
    << DoneLine, OtherLine >>,
    << EventLine(Some(<<"a">>)), OtherLine, HeadOfEventLine(Some(<<"b">>)) >>,
    << TailOfEventLine, OtherLine >> }

\* Date.now(): the clock does not go back, and two reads can fall in one millisecond
Ticks == { t \in {now, now + 1} : t <= MaxClock }

\* the dataContext prop of the panel, held as one token
dataContext == "dataContext"

\* no request body
noBody == [messages |-> <<>>, dataContext |-> ""]

\* the sendMessage call in flight: where it waits, the body it posted, its
\* locals, and the body of the response so far: delivered is the content
\* deltas of the event lines delivered in full, in order, and cut is the
\* content of an event line whose head was delivered and whose tail is
\* still to come
requestAt(pc, assistantId, body) ==
  [pc |-> pc, body |-> body, assistantId |-> assistantId, assistantContent |-> <<>>,
   delivered |-> <<>>, cut |-> None]

requestIdle == requestAt("idle", 0, noBody)

\* JSON.stringify({ messages: list.map(m => ({ role: m.role, content: m.content })), dataContext })
requestBody(list) ==
  [messages    |-> [i \in 1..Len(list) |-> [role |-> list[i].role, content |-> list[i].content]],
   dataContext |-> dataContext]

userMessages == SelectSeq(messages, LAMBDA m : m.role = "user")

assistantMessages == SelectSeq(messages, LAMBDA m : m.role = "assistant")

\* the input's onChange={(e) => setInput(e.target.value)}, disabled={loading}
setInput(text) ==
  /\ ~chatLoading
  /\ text # input
  /\ input' = text
  /\ UNCHANGED <<messages, chatLoading, request, now, hookVars, exportVars>>

\* variant: only the new user message is posted
sendMessageWithoutHistory(content) ==
  /\ ~(trim(content) = <<>> \/ chatLoading)
  /\ Len(userMessages) < MaxSends
  /\ \E t \in Ticks :
       LET userMessage == [id |-> t, role |-> "user", content |-> content] IN
       /\ now' = t
       /\ messages' = Append(messages, userMessage)
       /\ request' = requestAt("fetching", 0, requestBody(<<userMessage>>))
  /\ input' = <<>>
  /\ chatLoading' = TRUE
  /\ UNCHANGED <<hookVars, exportVars>>

\* variant: the guard does not test loading
sendMessageWhileLoading(content) ==
  /\ ~(trim(content) = <<>>)
  /\ Len(userMessages) < MaxSends
  /\ \E t \in Ticks :
       LET userMessage == [id |-> t, role |-> "user", content |-> content] IN
       /\ now' = t
       /\ messages' = Append(messages, userMessage)
       /\ request' = requestAt("fetching", 0, requestBody(Append(messages, userMessage)))
  /\ input' = <<>>
  /\ chatLoading' = TRUE
  /\ UNCHANGED <<hookVars, exportVars>>

\* sendMessage(content) up to the await of fetch.  A call that returns at
\* the guard (if (!content.trim() || loading) return) changes nothing: it
\* is a step that leaves every variable unchanged.
sendMessage(content) ==
  /\ ~(trim(content) = <<>> \/ chatLoading)
  /\ Len(userMessages) < MaxSends
  /\ \E t \in Ticks :
       LET userMessage == [id |-> t, role |-> "user", content |-> content] IN
       /\ now' = t
       /\ messages' = Append(messages, userMessage)
       /\ request' = requestAt("fetching", 0, requestBody(Append(messages, userMessage)))
  /\ input' = <<>>
  /\ chatLoading' = TRUE
  /\ UNCHANGED <<hookVars, exportVars>>

\* the form's onSubmit: sendMessage(input)
submit == sendMessage(input)

\* a suggestion chip (shown while messages.length === 0): onSelect={sendMessage}
selectSuggestion == messages = <<>> /\ sendMessage(suggestionQuestion)

\* variant: the catch block without the finally block
catchErrorWithoutFinally ==
  /\ \E t \in Ticks :
       /\ now' = t
       /\ messages' = Append(messages, [id |-> t + 1, role |-> "assistant",
                                        content |-> errorNotice])
  /\ request' = requestIdle
  /\ UNCHANGED <<input, chatLoading, hookVars, exportVars>>

\* the catch block, then the finally block
catchError ==
  /\ \E t \in Ticks :
       /\ now' = t
       /\ messages' = Append(messages, [id |-> t + 1, role |-> "assistant",
                                        content |-> errorNotice])
  /\ chatLoading' = FALSE
  /\ request' = requestIdle
  /\ UNCHANGED <<input, hookVars, exportVars>>

\* the fetch rejects (network error)
fetchRejected == request.pc = "fetching" /\ catchError

\* the fetch resolves with a response that is not ok: throw new Error(...)
fetchNotOk == request.pc = "fetching" /\ catchError

\* the fetch resolves with an ok response: the empty assistant message is
\* appended and the loop waits for the first read
fetchOk ==
  /\ request.pc = "fetching"
  /\ \E t \in Ticks :
       /\ now' = t
       /\ messages' = Append(messages, [id |-> t + 1, role |-> "assistant", content |-> <<>>])
       /\ request' = requestAt("reading", t + 1, request.body)
  /\ UNCHANGED <<input, chatLoading, hookVars, exportVars>>

\* the fetch resolves with an ok response without a body: reader is undefined,
\* while (reader) is skipped and the finally block runs
fetchOkWithoutBody ==
  /\ request.pc = "fetching"
  /\ \E t \in Ticks :
       /\ now' = t
       /\ messages' = Append(messages, [id |-> t + 1, role |-> "assistant", content |-> <<>>])
  /\ chatLoading' = FALSE
  /\ request' = requestIdle
  /\ UNCHANGED <<input, hookVars, exportVars>>

\* if (line.startsWith('data: ') && line !== 'data: [DONE]') { try { ... } catch {} }:
\* does the line add its content to assistantContent
lineHasContent(line) == line.kind = "event" /\ TruthyText(line.content)

RECURSIVE contentOfLines(_)
\* what the lines of a chunk add to assistantContent, in order
contentOfLines(lines) ==
  IF lines = <<>> THEN <<>>
  ELSE (IF lineHasContent(Head(lines)) THEN Head(lines).content[1] ELSE <<>>)
         \o contentOfLines(Tail(lines))

\* prev.map(m => m.id === assistantMessage.id ? { ...m, content } : m)
withContent(prev, id, content) ==
  [i \in 1..Len(prev) |->
     IF prev[i].id = id THEN [prev[i] EXCEPT !.content = content] ELSE prev[i]]

\* the body is a stream of lines: a chunk starts with the tail of a line
\* exactly when the chunk before ended with its head
continuesStream(chunk) == (request.cut # None) <=> (Head(chunk).kind = "tail")

\* the content of the line a chunk leaves cut, if it leaves one
cutBy(chunk) ==
  IF chunk[Len(chunk)].kind = "head" THEN chunk[Len(chunk)].content ELSE None

RECURSIVE deliveredByLines(_, _)
\* the content deltas of the event lines a chunk completes, in order
deliveredByLines(cut, lines) ==
  IF lines = <<>> THEN <<>>
  ELSE LET line == Head(lines)
           content == IF line.kind = "tail" THEN cut
                      ELSE IF line.kind = "event" THEN line.content
                      ELSE None
       IN (IF TruthyText(content) THEN content[1] ELSE <<>>)
            \o deliveredByLines(cut, Tail(lines))

\* a read resolves with a chunk: every line is handled before the next await
readChunk(chunk) ==
  /\ request.pc = "reading"
  /\ continuesStream(chunk)
  /\ LET assistantContent == request.assistantContent \o contentOfLines(chunk)
         delivered == request.delivered \o deliveredByLines(request.cut, chunk)
     IN
     /\ Len(delivered) <= MaxContent
     /\ request' = [request EXCEPT !.assistantContent = assistantContent,
                                   !.delivered = delivered,
                                   !.cut = cutBy(chunk)]
     /\ messages' =
          IF \E i \in 1..Len(chunk) : lineHasContent(chunk[i])
            THEN withContent(messages, request.assistantId, formatResponse(assistantContent))
            ELSE messages
  /\ UNCHANGED <<input, chatLoading, now, hookVars, exportVars>>

\* a read resolves with done: break, then the finally block
readDone ==
  /\ request.pc = "reading"
  /\ chatLoading' = FALSE
  /\ request' = requestIdle
  /\ UNCHANGED <<messages, input, now, hookVars, exportVars>>

\* a read rejects (the connection drops mid-stream): the catch block
readFailed == request.pc = "reading" /\ catchError

(***************************************************************************)
(* The fetch (loadDemoData) and setFilters                                 *)
(***************************************************************************)
\* rows -> AppraisalResponse[]: each response copies the listed columns
transformedData(data) ==
  [i \in 1..Len(data) |-> [c \in ResponseFields |-> data[i][c]]]

\* the query ({ data, error: fetchError } of the await): not yet answered,
\* answered with rows, or answered with a fetchError / rejected
queryPending == [status |-> "pending", data |-> <<>>]

queryRows(data) == [status |-> "rows", data |-> data]

queryError == [status |-> "error", data |-> <<>>]

Init ==
  /\ responses = <<>>
  /\ loading = TRUE
  /\ error = None
  /\ filters = InitialFilters
  /\ fetch = queryPending
  /\ isOpen = FALSE
  /\ exporting = FALSE
  /\ exports = <<>>
  /\ messages = <<>>
  /\ input = <<>>
  /\ chatLoading = FALSE
  /\ request = requestIdle
  /\ now = 0

\* variant: only the first row is stored
loadDemoDataResolvedFirstRow(tables) ==
  /\ fetch.status = "pending"
  /\ \E data \in tables :
       /\ responses' = transformedData(IF data = <<>> THEN <<>> ELSE <<data[1]>>)
       /\ fetch' = queryRows(data)
  /\ error' = None
  /\ loading' = FALSE
  /\ UNCHANGED <<filters, exportVars, chatVars>>

\* the query resolves with rows (one of tables) and no fetchError
loadDemoDataResolved(tables) ==
  /\ fetch.status = "pending"
  /\ \E data \in tables :
       /\ responses' = transformedData(data)
       /\ fetch' = queryRows(data)
  /\ error' = None
  /\ loading' = FALSE
  /\ UNCHANGED <<filters, exportVars, chatVars>>

\* variant: the catch block does not record the failure
loadDemoDataFailedUnrecorded ==
  /\ fetch.status = "pending"
  /\ error' = None
  /\ loading' = FALSE
  /\ fetch' = queryError
  /\ UNCHANGED <<responses, filters, exportVars, chatVars>>

\* the query resolves with a fetchError, or the await throws
loadDemoDataFailed ==
  /\ fetch.status = "pending"
  /\ error' = Some("Failed to load demo data")
  /\ loading' = FALSE
  /\ fetch' = queryError
  /\ UNCHANGED <<responses, filters, exportVars, chatVars>>

setFilters(f) ==
  /\ filters' = f
  /\ f # filters
  /\ UNCHANGED <<responses, loading, error, fetch, exportVars, chatVars>>

(***************************************************************************)
(* The export button: the menu and the two export handlers.  A handler is  *)
(* synchronous: setExporting(true), the try block that builds and writes   *)
(* the file, and the finally block run within one event, so the flags it   *)
(* leaves are those of the finally block whether the try block completed   *)
(* or threw.                                                               *)
(***************************************************************************)
\* how a try block ended: the file was written, or a statement threw before
ExportOutcomes == {"written", "threw"}

\* the Export button: onClick={() => setIsOpen(!isOpen)}, disabled={exporting}
toggleMenu ==
  /\ ~exporting
  /\ isOpen' = ~isOpen
  /\ UNCHANGED <<exporting, exports, hookVars, chatVars>>

\* the backdrop, rendered while the menu is open: onClick={() => setIsOpen(false)}
closeMenu ==
  /\ isOpen
  /\ isOpen' = FALSE
  /\ UNCHANGED <<exporting, exports, hookVars, chatVars>>

\* variant: the flags are reset after the file is written, not in a finally block
exportToExcelNoFinally(outcome) ==
  /\ isOpen
  /\ Len(exports) < MaxExports
  /\ exports' = Append(exports, [format |-> "xlsx", outcome |-> outcome])
  /\ exporting' = (outcome = "threw")
  /\ isOpen' = (outcome = "threw")
  /\ UNCHANGED <<hookVars, chatVars>>

\* the menu item 'Excel (.xlsx)', rendered while the menu is open
exportToExcel(outcome) ==
  /\ isOpen
  /\ Len(exports) < MaxExports
  /\ exports' = Append(exports, [format |-> "xlsx", outcome |-> outcome])
  /\ exporting' = FALSE
  /\ isOpen' = FALSE
  /\ UNCHANGED <<hookVars, chatVars>>

\* the menu item 'PDF Report', rendered while the menu is open
exportToPDF(outcome) ==
  /\ isOpen
  /\ Len(exports) < MaxExports
  /\ exports' = Append(exports, [format |-> "pdf", outcome |-> outcome])
  /\ exporting' = FALSE
  /\ isOpen' = FALSE
  /\ UNCHANGED <<hookVars, chatVars>>

(***************************************************************************)
(* Specification: rows that differ in manager and relationship             *)
(***************************************************************************)
FilterPool ==
  { MakeRow(m, rel, NoScores, NoFeedback) :
      m \in {"Alice", "Bob"},
      rel \in {None, Some("Peer"), Some("Direct Report")} }
    \cup { MakeRow("Alice", Some(""), NoScores, NoFeedback) }

FilterStates == FilterStatesOver({"Alice", "Bob"}, Relationships, ScoreRanges)

Next ==
  \/ loadDemoDataResolved(TablesOver(FilterPool))
  \/ loadDemoDataFailed
  \/ \E f \in FilterStates : setFilters(f)

Spec == Init /\ [][Next]_vars

(***************************************************************************)
(* Specification: rows that differ in their competency scores.  The score  *)
(* columns are unconstrained integers, so a row may hold a value on either *)
(* side of the 1..5 scale.                                                 *)
(***************************************************************************)
ScoresAt(values) == values @@ NoScores

UniformScores(keys, v) == ScoresAt([k \in {keys[i] : i \in 1..Len(keys)} |-> Some(v)])

\* every competency scored: 1, 2, 3, 4, 5, 1, 2, ... down the catalog
MixedScores == [k \in DOMAIN NoScores |->
                  Some((((CHOOSE i \in 1..Len(scoreKeys) : scoreKeys[i] = k) - 1) % ScoreMax) + 1)]

OutOfScaleScores ==
  ScoresAt("final_say_score" :> Some(0) @@ "approachable_score" :> Some(ScoreMax + 1)
             @@ "open_to_ideas_score" :> Some(3))

ScoreVectors ==
  { NoScores,
    UniformScores(teamLeadershipKeys, 4),
    UniformScores(teamLeadershipKeys, 2),
    ScoresAt([k \in {"empowers_team_score"} |-> Some(ScoreMax)]),
    ScoresAt("final_say_score" :> Some(1) @@ "sense_of_urgency_score" :> Some(2)),
    OutOfScaleScores,
    MixedScores }

ScorePool ==
  { MakeRow("Alice", Some("Peer"), v, NoFeedback) : v \in ScoreVectors }
    \cup { MakeRow("Bob", Some("Peer"), v, NoFeedback) :
             v \in {NoScores, UniformScores(teamLeadershipKeys, 2), OutOfScaleScores,
                    MixedScores} }
    \cup { MakeRow("Cara", Some("Peer"), v, NoFeedback) :
             v \in {UniformScores(teamLeadershipKeys, 4), MixedScores} }

ScoreFilterStates == FilterStatesOver({"Alice", "Cara"}, {}, {InitialFilters.scoreRange})

NextScores ==
  \/ loadDemoDataResolved(TablesOver(ScorePool))
  \/ loadDemoDataFailed
  \/ \E f \in ScoreFilterStates : setFilters(f)

SpecScores == Init /\ [][NextScores]_vars

(***************************************************************************)
(* Specification: rows that differ in their stop / start / continue texts  *)
(***************************************************************************)
Text(chars) == Some(chars)

Feedback(stop, start, continue) ==
  [stop_doing |-> stop, start_doing |-> start, continue_doing |-> continue]

FeedbackVectors ==
  { NoFeedback,
    Feedback(Text(<<"a">>), None, None),
    Feedback(None, Text(<<" ", "A">>), None),
    Feedback(None, None, Text(<<"a", " ">>)),
    Feedback(Text(<<"b">>), Text(<<"A">>), Text(<<"B">>)),
    Feedback(Text(<<" ">>), Text(<<>>), Text(<<"a", " ", "b">>)),
    Feedback(Text(<<"A", " ", "B">>), Text(<<"a">>), Text(<<"a">>)) }

FeedbackPool ==
  { MakeRow(m, Some("Peer"), NoScores, t) : m \in {"Alice", "Bob"}, t \in FeedbackVectors }

FeedbackFilterStates == FilterStatesOver({"Alice", "Bob"}, {}, {InitialFilters.scoreRange})

NextFeedback ==
  \/ loadDemoDataResolved(TablesOver(FeedbackPool))
  \/ loadDemoDataFailed
  \/ \E f \in FeedbackFilterStates : setFilters(f)

SpecFeedback == Init /\ [][NextFeedback]_vars


(***************************************************************************)
(* Specification: complete rows (relationship, scores and texts together), *)
(* and a filter that can select a manager no row belongs to                *)
(***************************************************************************)
DashboardRows ==
  { [relationship |-> Some("Peer"), scores |-> MixedScores,
     feedback |-> Feedback(Text(<<"a">>), Text(<<"b">>), Text(<<"A", " ", "B">>))],
    [relationship |-> Some("Direct Report"), scores |-> UniformScores(teamLeadershipKeys, 4),
     feedback |-> Feedback(Text(<<"A">>), None, None)],
    [relationship |-> None, scores |-> NoScores, feedback |-> NoFeedback] }

DashboardPool ==
  { MakeRow(m, row.relationship, row.scores, row.feedback) :
      m \in {"Alice", "Bob"}, row \in DashboardRows }

DashboardFilterStates == FilterStatesOver({"Alice", "Cara"}, {"Peer"}, ScoreRanges)

NextDashboard ==
  \/ loadDemoDataResolved(TablesOver(DashboardPool))
  \/ loadDemoDataFailed
  \/ \E f \in DashboardFilterStates : setFilters(f)

SpecDashboard == Init /\ [][NextDashboard]_vars


(***************************************************************************)
(* Specification: the export button on the dashboard, beside the fetch and *)
(* the manager filter                                                      *)
(***************************************************************************)
ExportPool ==
  { MakeRow(m, Some("Peer"), UniformScores(teamLeadershipKeys, 4), NoFeedback) :
      m \in {"Alice", "Bob"} }

ExportFilterStates == FilterStatesOver({"Alice"}, {}, {InitialFilters.scoreRange})

NextExport ==
  \/ loadDemoDataResolved(TablesOver(ExportPool))
  \/ loadDemoDataFailed
  \/ \E f \in ExportFilterStates : setFilters(f)
  \/ toggleMenu
  \/ closeMenu
  \/ \E outcome \in ExportOutcomes : exportToExcel(outcome)
  \/ \E outcome \in ExportOutcomes : exportToPDF(outcome)

SpecExport == Init /\ [][NextExport]_vars


(***************************************************************************)
(* Specification: the chat panel                                           *)
(***************************************************************************)
NextChat ==
  \/ \E text \in Inputs : setInput(text)
  \/ submit
  \/ selectSuggestion
  \/ fetchRejected
  \/ fetchNotOk
  \/ fetchOk
  \/ fetchOkWithoutBody
  \/ \E chunk \in Chunks : readChunk(chunk)
  \/ readDone
  \/ readFailed

SpecChat == Init /\ [][NextChat]_vars


(***************************************************************************)
(* Helpers of the properties                                               *)
(***************************************************************************)
Range(seq) == {seq[i] : i \in 1..Len(seq)}

RECURSIVE SumOver(_, _)
\* the sum of f[x] over the finite set S
SumOver(S, f) ==
  IF S = {} THEN 0
  ELSE LET x == CHOOSE y \in S : TRUE IN f[x] + SumOver(S \ {x}, f)

ResponsesOf(rs, name) ==
  LET mine(response) == response.manager_name = name IN SelectSeq(rs, mine)

(***************************************************************************)
(* C1: the filter keeps a response iff (no manager is selected or the      *)
(* response's manager is selected) and (no relationship is selected or the *)
(* response's relationship is selected); a response without a relationship *)
(* is dropped whenever a relationship is selected.                         *)
(***************************************************************************)
C1_Keeps(response) ==
  /\ filters.managers = {} \/ response.manager_name \in filters.managers
  /\ \/ filters.relationships = {}
     \/ /\ response.relationship # None
        /\ response.relationship[1] \in filters.relationships

C1_FilterRule == filteredResponses = SelectSeq(responses, C1_Keeps)

(***************************************************************************)
(* C2: the total_responses of the manager summaries add up to the number   *)
(* of filtered responses.                                                  *)
(***************************************************************************)
C2_CountsSumToFiltered ==
  LET ms == managerSummaries IN
  SumOver(1..Len(ms), [i \in 1..Len(ms) |-> ms[i].total_responses])
    = Len(filteredResponses)

C2_Witness ==
  LET ms == managerSummaries IN
  /\ Len(ms) >= 2
  /\ Len(filteredResponses) < Len(responses)

(***************************************************************************)
(* C3: there is exactly one summary per manager name of the filtered set;  *)
(* its total_responses is the number of filtered responses of that manager *)
(* and its responses are exactly those, in filtered order.                 *)
(***************************************************************************)
C3_OneSummaryPerManager ==
  LET ms == managerSummaries
      fr == filteredResponses
  IN
  /\ {ms[i].manager_name : i \in 1..Len(ms)} = {fr[i].manager_name : i \in 1..Len(fr)}
  /\ \A i \in 1..Len(ms) : \A j \in 1..Len(ms) :
       ms[i].manager_name = ms[j].manager_name => i = j
  /\ \A i \in 1..Len(ms) :
       /\ ms[i].responses = ResponsesOf(fr, ms[i].manager_name)
       /\ ms[i].total_responses = Len(ResponsesOf(fr, ms[i].manager_name))

C3_Witness ==
  /\ Len(managerSummaries) = 2
  /\ Len(filteredResponses) = 3
  /\ filters.relationships # {}

(***************************************************************************)
(* Helpers of the score properties: the non-null scores of a set of keys   *)
(* as a set of (response index, key) occurrences                           *)
(***************************************************************************)
TeamLeadershipCategory ==
  {"empowers_team_score", "mentors_coaches_score", "effective_direction_score",
   "establishes_rapport_score", "sets_clear_goals_score"}

ResultsOrientationCategory ==
  {"open_to_ideas_score", "sense_of_urgency_score", "analyzes_change_score",
   "final_say_score"}

CulturalFitCategory ==
  {"confidence_integrity_score", "patient_humble_score", "flat_collaborative_score",
   "approachable_score"}

Categories == <<TeamLeadershipCategory, ResultsOrientationCategory, CulturalFitCategory>>

CatalogKeys == TeamLeadershipCategory \cup ResultsOrientationCategory \cup CulturalFitCategory

Occurrences(rs, keys) == {p \in (1..Len(rs)) \X keys : rs[p[1]][p[2]] # None}

OccurrenceSum(rs, keys) ==
  LET occ == Occurrences(rs, keys) IN SumOver(occ, [p \in occ |-> rs[p[1]][p[2]][1]])

OccurrenceCount(rs, keys) == Cardinality(Occurrences(rs, keys))

\* h is n / d in units of 1 / scale, rounded to a nearest unit
IsRounded(h, n, d, scale) ==
  /\ 2 * d * h <= 2 * n * scale + d
  /\ 2 * n * scale - d <= 2 * d * h

CategoryFields == <<"avg_team_leadership", "avg_results_orientation", "avg_cultural_fit">>

ScoresInScale(rs) ==
  \A p \in Occurrences(rs, CatalogKeys) :
    rs[p[1]][p[2]][1] >= 1 /\ rs[p[1]][p[2]][1] <= ScoreMax

(***************************************************************************)
(* C4: a summary's overall_score is 0 iff its three category averages are  *)
(* 0; otherwise it is the mean of the non-zero category averages only (to  *)
(* two decimals).                                                          *)
(***************************************************************************)
C4_NonZero(rs) == {b \in 1..3 : OccurrenceSum(rs, Categories[b]) # 0}

RECURSIVE C4_SumOfAverages(_, _)
C4_SumOfAverages(rs, B) ==
  IF B = {} THEN Frac(0, 1)
  ELSE LET b == CHOOSE x \in B : TRUE IN
       FracAdd(Frac(OccurrenceSum(rs, Categories[b]), OccurrenceCount(rs, Categories[b])),
               C4_SumOfAverages(rs, B \ {b}))

C4_OverallOf(m, rs) ==
  LET B     == C4_NonZero(rs)
      total == C4_SumOfAverages(rs, B)
  IN  /\ m.overall_score = 0
           <=> (m.avg_team_leadership = 0 /\ m.avg_results_orientation = 0
                  /\ m.avg_cultural_fit = 0)
      /\ m.overall_score # 0
           => /\ B # {}
              /\ IsRounded(m.overall_score, total.n, total.d * Cardinality(B), 100)

C5_PooledMean(h, rs, keys) ==
  IF OccurrenceCount(rs, keys) = 0
    THEN h = 0
    ELSE IsRounded(h, OccurrenceSum(rs, keys), OccurrenceCount(rs, keys), 100)

C5_CategoryAveragesArePooled ==
  LET ms == managerSummaries
      fr == filteredResponses
  IN  /\ Range(teamLeadershipKeys) = TeamLeadershipCategory
      /\ Range(resultsOrientationKeys) = ResultsOrientationCategory
      /\ Range(culturalFitKeys) = CulturalFitCategory
      /\ Range(scoreKeys) = CatalogKeys
      /\ Cardinality(CatalogKeys) = Len(teamLeadershipKeys) + Len(resultsOrientationKeys)
                                      + Len(culturalFitKeys)
      /\ \A i \in 1..Len(ms) : \A b \in 1..3 :
           C5_PooledMean(ms[i][CategoryFields[b]],
                         ResponsesOf(fr, ms[i].manager_name), Categories[b])

\* a manager whose responses score a bucket unevenly: the pooled mean is not
\* the mean of the per-response means
C5_Witness ==
  LET ms == managerSummaries
      fr == filteredResponses
  IN  \E i \in 1..Len(ms) :
        LET rs == ResponsesOf(fr, ms[i].manager_name) IN
        /\ Len(rs) >= 2
        /\ OccurrenceCount(<<rs[1]>>, TeamLeadershipCategory) = 1
        /\ OccurrenceCount(<<rs[2]>>, TeamLeadershipCategory) = 5
        /\ OccurrenceSum(<<rs[1]>>, TeamLeadershipCategory) * 5
             # OccurrenceSum(<<rs[2]>>, TeamLeadershipCategory)
        /\ ms[i].avg_results_orientation > 0

(***************************************************************************)
(* C6: when every non-null score is in 1..5, each category average is 0 or *)
(* lies in [1, 5], and it is 0 iff the manager has no non-null score in    *)
(* the category.                                                           *)
(***************************************************************************)
C6_CategoryAverageInScale ==
  LET ms == managerSummaries
      fr == filteredResponses
  IN  ScoresInScale(fr) =>
        \A i \in 1..Len(ms) : \A b \in 1..3 :
          LET h == ms[i][CategoryFields[b]] IN
          /\ h = 0 \/ (h >= 100 /\ h <= ScoreMax * 100)
          /\ h = 0 <=> OccurrenceCount(ResponsesOf(fr, ms[i].manager_name), Categories[b]) = 0

C6_Witness ==
  LET ms == managerSummaries
      fr == filteredResponses
  IN  /\ ScoresInScale(fr)
      /\ \E i \in 1..Len(ms) :
           /\ ms[i].avg_team_leadership > 100 /\ ms[i].avg_team_leadership < ScoreMax * 100
           /\ ms[i].avg_cultural_fit = 0
           /\ ms[i].total_responses >= 2
      /\ \E i \in 1..Len(ms) : ms[i].avg_team_leadership = ScoreMax * 100

(***************************************************************************)
(* C7: the summaries are in descending order of overall_score, and         *)
(* managers with equal overall_score keep the order in which their names   *)
(* first occur in the filtered responses.                                  *)
(***************************************************************************)
C7_FirstIndex(rs, name) == CHOOSE i \in 1..Len(rs) :
  /\ rs[i].manager_name = name
  /\ \A j \in 1..(i - 1) : rs[j].manager_name # name

C7_SortedDescendingStable ==
  LET ms == managerSummaries
      fr == filteredResponses
  IN  \A i \in 1..Len(ms) : \A j \in 1..Len(ms) :
        i < j =>
          /\ ms[i].overall_score >= ms[j].overall_score
          /\ ms[i].overall_score = ms[j].overall_score
               => C7_FirstIndex(fr, ms[i].manager_name) < C7_FirstIndex(fr, ms[j].manager_name)

\* three managers: the last one met scores highest, the other two tie
C7_Witness ==
  LET ms == managerSummaries
      fr == filteredResponses
  IN  /\ Len(ms) = 3
      /\ ms[1].overall_score > ms[2].overall_score
      /\ ms[2].overall_score = ms[3].overall_score
      /\ ms[2].overall_score > 0
      /\ C7_FirstIndex(fr, ms[1].manager_name) > C7_FirstIndex(fr, ms[3].manager_name)

(***************************************************************************)
(* C8: competencyScores has 13 entries in catalog order whatever the       *)
(* scores; an entry's score is the mean of the non-null values of its      *)
(* competency over the whole filtered set (0 when there are none, to two   *)
(* decimals), maxScore is 5 and percentage is that mean / 5 in percent (to *)
(* one decimal).                                                           *)
(***************************************************************************)
C8_EntryOf(e, comp, rs) ==
  LET n == OccurrenceSum(rs, {comp.key})
      d == OccurrenceCount(rs, {comp.key})
  IN  /\ e.name = comp.name
      /\ e.maxScore = 5
      /\ IF d = 0
           THEN e.score = 0 /\ e.percentage = 0
           ELSE /\ IsRounded(e.score, n, d, 100)
                /\ IsRounded(e.percentage, n * 100, d * 5, 10)

C8_CompetencyScoresInCatalogOrder ==
  LET cs == competencyScores
      fr == filteredResponses
  IN  /\ Len(cs) = 13
      /\ Len(competencies) = 13
      /\ \A i \in 1..Len(cs) : C8_EntryOf(cs[i], competencies[i], fr)

\* two managers in the filtered set, a later competency scoring above an
\* earlier one, and a mean that is not a whole number
C8_Witness ==
  LET cs == competencyScores
      fr == filteredResponses
  IN  /\ Cardinality({fr[i].manager_name : i \in 1..Len(fr)}) >= 2
      /\ \E i \in 1..Len(cs) : \E j \in 1..Len(cs) : i < j /\ cs[i].score < cs[j].score
      /\ \E i \in 1..Len(cs) : cs[i].score % 100 # 0 /\ cs[i].percentage > 0
      /\ \E i \in 1..Len(cs) : cs[i].score = 0

(***************************************************************************)
(* C9: the five buckets of the score histogram add up to the number of     *)
(* non-null competency scores of the filtered set.  As amended: to the     *)
(* number of non-null competency scores that lie in 1..5.                  *)
(***************************************************************************)
C9_HistogramTotal ==
  LET sd == scoreDistribution IN SumOver(DOMAIN sd, sd)

C9_HistogramCountsNonNull ==
  C9_HistogramTotal = OccurrenceCount(filteredResponses, CatalogKeys)

C9_InScale(rs) ==
  {p \in Occurrences(rs, CatalogKeys) : rs[p[1]][p[2]][1] >= 1 /\ rs[p[1]][p[2]][1] <= 5}

C9_HistogramCountsInScale ==
  /\ DOMAIN scoreDistribution = {"1", "2", "3", "4", "5"}
  /\ C9_HistogramTotal = Cardinality(C9_InScale(filteredResponses))

C9_Witness ==
  LET fr == filteredResponses IN
  /\ Cardinality(C9_InScale(fr)) > 13
  /\ Cardinality(C9_InScale(fr)) < OccurrenceCount(fr, CatalogKeys)
  /\ Len(fr) < Len(responses)

(***************************************************************************)
(* C10: the themes are built in one pass over the filtered responses,      *)
(* visiting stop, start, continue of each; a text is emitted (trimmed)     *)
(* only the first time its trimmed, lower-cased form is met, into the list *)
(* of the field where it was met, so no two entries of the three lists are *)
(* equal after trimming and lower-casing.                                  *)
(***************************************************************************)
C10_Fields == <<"stop_doing", "start_doing", "continue_doing">>

C10_Lists == <<"stopDoing", "startDoing", "continueDoing">>

\* the visits in order: visit p reads field ((p - 1) % 3) + 1 of response ((p - 1) \div 3) + 1
C10_TextAt(rs, p) == rs[((p - 1) \div 3) + 1][C10_Fields[((p - 1) % 3) + 1]]

C10_Normal(text) == toLowerCase(trim(text))

C10_FirstMet(rs, p) ==
  /\ TruthyText(C10_TextAt(rs, p))
  /\ \A q \in 1..(p - 1) :
       TruthyText(C10_TextAt(rs, q))
         => C10_Normal(C10_TextAt(rs, q)[1]) # C10_Normal(C10_TextAt(rs, p)[1])

RECURSIVE C10_Emitted(_, _, _)
\* the texts first met at a visit of field f among the first n visits
C10_Emitted(rs, f, n) ==
  IF n = 0 THEN <<>>
  ELSE LET before == C10_Emitted(rs, f, n - 1) IN
       IF ((n - 1) % 3) + 1 = f /\ C10_FirstMet(rs, n)
         THEN Append(before, trim(C10_TextAt(rs, n)[1]))
         ELSE before

C10_AllEntries(ft) == UNION {{<<l, i>> : i \in 1..Len(ft[C10_Lists[l]])} : l \in 1..3}

C10_ThemesAreFirstOccurrences ==
  LET ft == feedbackThemes
      fr == filteredResponses
  IN  /\ \A f \in 1..3 : ft[C10_Lists[f]] = C10_Emitted(fr, f, 3 * Len(fr))
      /\ \A x \in C10_AllEntries(ft) : \A y \in C10_AllEntries(ft) :
           x # y => C10_Normal(ft[C10_Lists[x[1]]][x[2]]) # C10_Normal(ft[C10_Lists[y[1]]][y[2]])

\* a text met again in another field and in another case is not emitted again
C10_Witness ==
  LET ft == feedbackThemes
      fr == filteredResponses
  IN  /\ Len(fr) >= 2
      /\ Len(ft.stopDoing) >= 1 /\ Len(ft.startDoing) >= 1
      /\ \E i \in 1..Len(fr) :
           /\ TruthyText(fr[i].continue_doing)
           /\ trim(fr[i].continue_doing[1]) \notin Range(ft.continueDoing)
           /\ \E j \in 1..Len(ft.startDoing) :
                /\ ft.startDoing[j] # trim(fr[i].continue_doing[1])
                /\ C10_Normal(ft.startDoing[j]) = C10_Normal(fr[i].continue_doing[1])

(***************************************************************************)
(* C11: feeding the three deduplicated lists back through the same         *)
(* deduplication (the i-th response carries the i-th entry of each list)   *)
(* yields the same three lists as the first run.                           *)
(***************************************************************************)
C11_Max(a, b) == IF a >= b THEN a ELSE b

C11_EntryAt(list, i) == IF i <= Len(list) THEN Some(list[i]) ELSE None

\* the lists as a response sequence: entry i of each list on response i
C11_AsResponses(ft) ==
  [i \in 1..C11_Max(Len(ft.stopDoing), C11_Max(Len(ft.startDoing), Len(ft.continueDoing))) |->
     MakeRow("Alice", Some("Peer"), NoScores,
             Feedback(C11_EntryAt(ft.stopDoing, i),
                      C11_EntryAt(ft.startDoing, i),
                      C11_EntryAt(ft.continueDoing, i)))]

C11_Idempotent ==
  LET ft == feedbackThemes IN
  computeFeedbackThemes(C11_AsResponses(ft)) = ft

(***************************************************************************)
(* C12: the relationship distribution has one key per distinct present     *)
(* relationship value of the filtered set, mapped to the number of         *)
(* filtered responses having it; a response whose relationship is absent   *)
(* (null, or the empty string) is counted under no key, there is no        *)
(* 'Unknown' key, and the counts sum to the number of filtered responses   *)
(* whose relationship is present.                                          *)
(***************************************************************************)
C12_Present(r) == r.relationship # None /\ r.relationship[1] # ""

C12_Having(rs, value) == {i \in 1..Len(rs) : rs[i].relationship = Some(value)}

C12_CountsPerPresentRelationship ==
  LET rd == relationshipDistribution
      fr == filteredResponses
      present == {i \in 1..Len(fr) : C12_Present(fr[i])}
  IN /\ DOMAIN rd = {fr[i].relationship[1] : i \in present}
     /\ \A value \in DOMAIN rd : rd[value] = Cardinality(C12_Having(fr, value))
     /\ "Unknown" \notin DOMAIN rd
     /\ SumOver(DOMAIN rd, rd) = Cardinality(present)

\* two relationship values are counted and a response without one is beside them
C12_Witness ==
  LET rd == relationshipDistribution
      fr == filteredResponses
  IN /\ Cardinality(DOMAIN rd) = 2
     /\ \E i \in 1..Len(fr) : ~C12_Present(fr[i])

(***************************************************************************)
(* C13: on an empty filtered set every aggregation has a value:            *)
(* managerSummaries is empty, competencyScores has 13 entries each with    *)
(* score 0 and percentage 0, the relationship distribution has no key,     *)
(* every score-distribution bucket is 0 and the three feedback lists are   *)
(* empty.                                                                  *)
(***************************************************************************)
C13_EmptyInputGivesZeroResults ==
  filteredResponses = <<>> =>
    LET cs == competencyScores
        sd == scoreDistribution
        ft == feedbackThemes
    IN /\ managerSummaries = <<>>
       /\ Len(cs) = 13
       /\ \A i \in 1..Len(cs) :
            /\ cs[i].name = competencies[i].name
            /\ cs[i].score = 0
            /\ cs[i].percentage = 0
       /\ DOMAIN relationshipDistribution = {}
       /\ DOMAIN sd = {NumberToString(n) : n \in 1..ScoreMax}
       /\ \A bucket \in DOMAIN sd : sd[bucket] = 0
       /\ ft.stopDoing = <<>> /\ ft.startDoing = <<>> /\ ft.continueDoing = <<>>

\* the filter leaves nothing of a collection that has scores, relationships and texts
C13_Witness ==
  /\ filteredResponses = <<>>
  /\ \E i \in 1..Len(responses) :
       /\ responses[i].final_say_score # None
       /\ responses[i].relationship # None
       /\ responses[i].stop_doing # None

(***************************************************************************)
(* C14: with no manager and no relationship selected the filtered          *)
(* responses are the responses themselves, in the same order.              *)
(***************************************************************************)
C14_EmptyFilterIsIdentity ==
  (filters.managers = {} /\ filters.relationships = {})
    => filteredResponses = responses

\* an empty selection set by setFilters over rows of two managers, one without relationship
C14_Witness ==
  /\ filters.managers = {} /\ filters.relationships = {}
  /\ filters # InitialFilters
  /\ \E i, j \in 1..Len(responses) :
       /\ responses[i].manager_name # responses[j].manager_name
       /\ responses[i].relationship = None
       /\ responses[j].relationship # None

(***************************************************************************)
(* C15: with exactly one manager selected and no relationship selected, on *)
(* a collection holding responses of that manager and of others, the       *)
(* filtered responses are that manager's responses and the manager         *)
(* summaries have exactly one entry, the manager's.                        *)
(***************************************************************************)
C15_Applies(name) ==
  /\ filters.managers = {name}
  /\ filters.relationships = {}
  /\ \E i \in 1..Len(responses) : responses[i].manager_name = name
  /\ \E i \in 1..Len(responses) : responses[i].manager_name # name

C15_SingleManagerFilter ==
  \A name \in Range(ManagerNames) :
    C15_Applies(name) =>
      LET ms == managerSummaries IN
      /\ filteredResponses = ResponsesOf(responses, name)
      /\ Len(ms) = 1
      /\ ms[1].manager_name = name
      /\ ms[1].total_responses = Len(ResponsesOf(responses, name))

\* two responses of the selected manager and one of another manager
C15_Witness ==
  \E name \in Range(ManagerNames) :
    /\ C15_Applies(name)
    /\ Len(filteredResponses) = 2
    /\ Len(responses) = 3

(***************************************************************************)
(* C16: when the query of the initial fetch errors, the hook has a         *)
(* non-null error, loading false and the response collection still empty,  *)
(* in that state and ever after, and the query is never issued again.      *)
(***************************************************************************)
C16_FailedFetchEndsInError ==
  /\ [](fetch.status = "error" => (error # None /\ ~loading /\ responses = <<>>))
  /\ [][fetch.status = "error" => fetch' = fetch]_vars

\* the fetch failed and the hook went on (a filter was set afterwards)
C16_Witness ==
  /\ fetch.status = "error"
  /\ error = Some("Failed to load demo data")
  /\ filters # InitialFilters

(***************************************************************************)
(* C17: loading is true exactly until the single fetch resolves and false  *)
(* ever after; the response collection changes at most once, in the one    *)
(* step that ends loading, from empty to the complete fetched collection;  *)
(* and once loading is false either error is null and responses is the     *)
(* complete fetched collection, or error is set and responses is empty.    *)
(***************************************************************************)
C17_Fetched == transformedData(fetch.data)

C17_LoadingUntilResolvedThenAtomic ==
  /\ [](loading <=> fetch.status = "pending")
  /\ [][~loading => (~loading' /\ fetch' = fetch /\ responses' = responses)]_vars
  /\ [][responses' # responses =>
          (/\ responses = <<>>
           /\ loading /\ ~loading'
           /\ fetch'.status = "rows"
           /\ responses' = transformedData(fetch'.data))]_vars
  /\ [](~loading =>
          ((error = None /\ fetch.status = "rows" /\ responses = C17_Fetched)
             # (error # None /\ responses = <<>>)))

\* the fetch resolved with several rows and the hook went on
C17_Witness ==
  /\ ~loading
  /\ error = None
  /\ Len(fetch.data) >= 2
  /\ Len(responses) = Len(fetch.data)
  /\ filters # InitialFilters

(***************************************************************************)
(* C20: for scores on the 1..5 scale the exporters' score-tier histogram   *)
(* counts every manager in exactly one tier, the one of the breakpoints    *)
(* (at least 3.5 Exceptional, at least 3.0 Strong, at least 2.5            *)
(* Developing, at least 2.0 Needs Improvement, otherwise Critical), and    *)
(* the five counts sum to the number of managers.                          *)
(***************************************************************************)
\* the tier of an overall score in hundredths: 1 Exceptional .. 5 Critical
C20_TierOf(score) ==
  IF score >= 350 THEN 1
  ELSE IF score >= 300 THEN 2
  ELSE IF score >= 250 THEN 3
  ELSE IF score >= 200 THEN 4
  ELSE 5

C20_EveryManagerInItsTier ==
  ScoresInScale(filteredResponses) =>
    LET ms    == managerSummaries
        tiers == getScoreDistribution(ms)
        count == [i \in 1..Len(tiers) |-> tiers[i].count]
    IN /\ Len(tiers) = 5
       /\ \A k \in 1..Len(ms) : \A i \in 1..Len(tiers) :
            (ms[k].manager_name \in Range(tiers[i].managers))
              <=> (i = C20_TierOf(ms[k].overall_score))
       /\ SumOver(1..Len(tiers), count) = Len(ms)

(***************************************************************************)
(* C19: after any export attempt, workbook or document, completed or       *)
(* thrown part-way, the exporting flag is false and the export menu is     *)
(* closed; the Export button (disabled while exporting) is never left      *)
(* disabled.                                                               *)
(***************************************************************************)
C19_ExportLeavesControlFree ==
  /\ [][exports' # exports => (~exporting' /\ ~isOpen')]_vars
  /\ []~exporting

\* a workbook export and a document export were made and one of them threw
C19_Witness ==
  /\ \E i, j \in 1..Len(exports) :
       /\ exports[i].format = "xlsx"
       /\ exports[j].format = "pdf"
       /\ exports[i].outcome = "threw" \/ exports[j].outcome = "threw"
  /\ ~exporting
  /\ ~isOpen

(***************************************************************************)
(* C18: when a chat request has failed (the fetch rejected, the response   *)
(* was not ok, or a read of the stream failed after content had arrived),  *)
(* exactly one assistant message was added to the conversation for that    *)
(* request.                                                                *)
(***************************************************************************)
\* the position of the last user message: the request the conversation ends with
C18_LastUser ==
  CHOOSE i \in 1..Len(messages) :
    /\ messages[i].role = "user"
    /\ \A j \in (i + 1)..Len(messages) : messages[j].role # "user"

\* the assistant messages added for the last request
C18_AddedForLastRequest ==
  {i \in (C18_LastUser + 1)..Len(messages) : messages[i].role = "assistant"}

\* the last request has failed: it is over and the conversation ends with the error notice
C18_LastRequestFailed ==
  /\ request.pc = "idle"
  /\ messages # <<>>
  /\ messages[Len(messages)].content = errorNotice

C18_OneAssistantMessagePerFailedRequest ==
  C18_LastRequestFailed => Cardinality(C18_AddedForLastRequest) = 1

(***************************************************************************)
(* C21: for scores on the 1..5 scale, the tier printed for a manager in    *)
(* the exporters' rankings tables names the tier the score-tier histogram  *)
(* counts that manager in.                                                 *)
(***************************************************************************)
\* the tier a label of the histogram names (the label without its range)
C21_TierNamed(label) ==
  CASE label = "Exceptional (3.5-4.0)"        -> "Exceptional"
    [] label = "Strong (3.0-3.49)"            -> "Strong"
    [] label = "Developing (2.5-2.99)"        -> "Developing"
    [] label = "Needs Improvement (2.0-2.49)" -> "Needs Improvement"
    [] label = "Critical (<2.0)"              -> "Critical"

C21_RankingTierIsHistogramTier ==
  ScoresInScale(filteredResponses) =>
    LET ms    == managerSummaries
        rows  == rankingData(ms)
        tiers == getScoreDistribution(ms)
    IN \A k \in 1..Len(rows) :
         \E i \in 1..Len(tiers) :
           /\ rows[k].manager_name \in Range(tiers[i].managers)
           /\ C21_TierNamed(tiers[i].label) = rows[k].tier

(***************************************************************************)
(* C22: for every competency key, the entry the exporters recompute        *)
(* (display name, average to two decimals, percentage to one decimal) is   *)
(* the entry competencyScores has for that key from the same responses,    *)
(* and the two catalogs hold the same 13 keys.                             *)
(***************************************************************************)
C22_SameCatalog ==
  /\ Len(exportCompetencies) = 13
  /\ {exportCompetencies[i].key : i \in 1..Len(exportCompetencies)} = CatalogKeys

C22_ExportEntriesAreEngineEntries ==
  LET cs == competencyScores
      es == calculateCompetencyScores(filteredResponses)
  IN /\ C22_SameCatalog
     /\ \A i \in 1..Len(competencies) : \A j \in 1..Len(exportCompetencies) :
          competencies[i].key = exportCompetencies[j].key =>
            /\ es[j].name = cs[i].name
            /\ ToFixed(es[j].avg, 2) = cs[i].score
            /\ ToFixed(es[j].percentage, 1) = cs[i].percentage

(***************************************************************************)
(* C23: the score range of the filter state has no part in filtering: a    *)
(* filter state that differs from the current one only in scoreRange gives *)
(* the same filtered sequence and the same aggregates.                     *)
(***************************************************************************)
C23_ScoreRangeIsInert ==
  \A range \in ScoreRanges \cup {<<ScoreMax, ScoreMax>>} :
    LET fr == filterResponses(responses, [filters EXCEPT !.scoreRange = range]) IN
    /\ fr = filteredResponses
    /\ computeManagerSummaries(fr) = managerSummaries
    /\ computeCompetencyScores(fr) = competencyScores
    /\ computeRelationshipDistribution(fr) = relationshipDistribution
    /\ computeScoreDistribution(fr) = scoreDistribution
    /\ computeFeedbackThemes(fr) = feedbackThemes

\* the range was changed on a filter that keeps scored responses and drops others
C23_Witness ==
  /\ filters.scoreRange = <<2, 3>>
  /\ filters.managers # {}
  /\ Len(filteredResponses) < Len(responses)
  /\ \E i \in 1..Len(filteredResponses) : filteredResponses[i].final_say_score = Some(4)

(***************************************************************************)
(* C24: when the stream of a chat response ends (done, without error), the *)
(* content of the request's assistant message is formatResponse of the     *)
(* concatenation, in arrival order, of the content deltas of every event   *)
(* line delivered, however the lines fall into chunks, a line cut by a     *)
(* chunk boundary included.                                                *)
(***************************************************************************)
\* the stream of the request in flight ends in this step
C24_StreamEnds ==
  /\ request.pc = "reading"
  /\ request'.pc = "idle"
  /\ messages' = messages

C24_ContentIsAllDeltas ==
  [][C24_StreamEnds =>
       \E i \in 1..Len(messages) :
         /\ messages[i].id = request.assistantId
         /\ messages[i].role = "assistant"
         /\ messages'[i].content = formatResponse(request.delivered)]_vars

(***************************************************************************)
(* C25: the body of every chat request carries, in conversation order, the *)
(* role and content of every message that was in the conversation when     *)
(* sendMessage was called, then the new user message as its last element,  *)
(* together with the dataContext.                                          *)
(***************************************************************************)
\* a request is posted in this step
C25_Posts == request.pc = "idle" /\ request'.pc = "fetching"

C25_BodyCarriesConversation ==
  [][C25_Posts =>
       LET sent == request'.body.messages IN
       /\ Len(sent) = Len(messages) + 1
       /\ \A i \in 1..Len(messages) :
            sent[i] = [role |-> messages[i].role, content |-> messages[i].content]
       /\ sent[Len(sent)].role = "user"
       /\ sent[Len(sent)].content = messages'[Len(messages')].content
       /\ Len(messages') = Len(sent)
       /\ request'.body.dataContext = dataContext]_vars

\* a request posted after a streamed reply and an error notice
C25_Witness ==
  /\ request.pc = "fetching"
  /\ Len(request.body.messages) = 4
  /\ request.body.messages[2].content = <<"a">>
  /\ request.body.messages[3].content = errorNotice

(***************************************************************************)
(* C26: at most one chat request is in flight.  A call of sendMessage      *)
(* while loading is true, or with empty or whitespace-only content, adds   *)
(* no message, posts no request and leaves messages, input and loading     *)
(* unchanged: every step that adds a user message, posts a request or      *)
(* sets loading starts with loading false and no request in flight, and    *)
(* the content it adds is not blank; while loading is true the input does  *)
(* not change; and a call while loading, or with blank content, has no     *)
(* step to take.                                                           *)
(***************************************************************************)
\* the contents sendMessage is called with
C26_Contents == Inputs \cup {suggestionQuestion, <<" ", "\n">>}

\* the step is an accepted call of sendMessage
C26_Accepts ==
  \/ Len(SelectSeq(messages', LAMBDA m : m.role = "user")) > Len(userMessages)
  \/ request'.pc = "fetching" /\ request' # request
  \/ chatLoading' /\ ~chatLoading

C26_OneRequestInFlight ==
  /\ [][C26_Accepts =>
          /\ ~chatLoading
          /\ request.pc = "idle"
          /\ request'.pc = "fetching"
          /\ chatLoading'
          /\ Len(messages') = Len(messages) + 1
          /\ messages'[Len(messages')].role = "user"
          /\ trim(messages'[Len(messages')].content) # <<>>]_vars
  /\ [][chatLoading => input' = input]_vars
  /\ [](\A content \in C26_Contents :
         (chatLoading \/ trim(content) = <<>>) => ~ENABLED sendMessage(content))

\* a request is in flight, its reply is streaming, and a further request
\* would be accepted if the guard did not test loading
C26_Witness ==
  /\ chatLoading
  /\ request.pc = "reading"
  /\ Len(userMessages) < MaxSends
  /\ Len(assistantMessages) = 1

(***************************************************************************)
(* C27: every accepted sendMessage sets loading to true; when the request  *)
(* resolves (the fetch rejects, the response is not ok, the stream ends or *)
(* a read fails) loading becomes false again and the input can be typed    *)
(* into; loading is true exactly while a request is in flight.             *)
(***************************************************************************)
C27_LoadingWhileInFlight ==
  /\ [](chatLoading <=> request.pc # "idle")
  /\ [][(request.pc = "idle" /\ request'.pc # "idle") => (~chatLoading /\ chatLoading')]_vars
  /\ [][(request.pc # "idle" /\ request'.pc = "idle") => (chatLoading /\ ~chatLoading')]_vars
  /\ [](request.pc = "idle" => \E text \in Inputs : ENABLED setInput(text))

\* two exchanges are over, one ended by the stream and one by an error
C27_Witness ==
  /\ ~chatLoading
  /\ request.pc = "idle"
  /\ Len(userMessages) = 2
  /\ \E i, j \in 1..Len(messages) :
       /\ messages[i].content = <<"a", "a">>
       /\ messages[j].content = errorNotice

(***************************************************************************)
(* C28: while a reply streams, a content delta changes only the content of *)
(* the assistant message created for the current request (the last message *)
(* of the conversation while its reply is read): the list never shrinks    *)
(* and every other message keeps its role and content.                     *)
(***************************************************************************)
\* a read delivers content of the reply in this step
C28_Streams == request.pc = "reading" /\ request'.pc = "reading"

C28_DeltaChangesOnlyItsMessage ==
  /\ [][Len(messages') >= Len(messages)]_vars
  /\ [][C28_Streams =>
          /\ Len(messages') = Len(messages)
          /\ \A i \in 1..Len(messages) :
               /\ messages'[i].role = messages[i].role
               /\ messages'[i].id = messages[i].id
               /\ i < Len(messages) => messages'[i].content = messages[i].content]_vars


(***************************************************************************)
(* C29: in the 'managers requiring development' table of the document      *)
(* export, the rank printed next to each manager is that manager's 1-based  *)
(* position in the complete ranking by descending overall_score, for every  *)
(* number of managers.                                                      *)
(***************************************************************************)
C29_PositionOf(managers, name) ==
  LET sorted == sortSummaries(managers) IN
  CHOOSE i \in 1..Len(sorted) : sorted[i].manager_name = name

C29_DevelopmentRankIsRankingPosition ==
  LET ms   == managerSummaries
      rows == developmentTable(ms)
  IN \A k \in 1..Len(rows) :
       rows[k].rank = C29_PositionOf(ms, rows[k].manager_name)


(***************************************************************************)
(* C30: on an empty manager-summary list and an empty response list the    *)
(* exporters divide by no zero count: the organisation averages, the        *)
(* average responses per manager, the tier percentages and the relationship *)
(* percentages are all 0, never an undefined or NaN-like value.             *)
(***************************************************************************)
C30_IsZero(x) == x.d # 0 /\ x.n = 0

C30_AverageFields ==
  {"overall_score", "avg_team_leadership", "avg_results_orientation", "avg_cultural_fit"}

C30_EmptyExportResolvesToZero ==
  (managerSummaries = <<>> /\ filteredResponses = <<>>) =>
    LET managers == managerSummaries
        rs       == filteredResponses
        tiers    == tierPercentages(managers)
        rels     == getRelationshipBreakdown(rs)
    IN /\ \A field \in C30_AverageFields :
            C30_IsZero(organisationAverage(managers, field))
       /\ C30_IsZero(averageResponsesPerManager(managers, rs))
       /\ \A i \in 1..Len(tiers) : C30_IsZero(tiers[i])
       /\ \A name \in DOMAIN rels : C30_IsZero(rels[name].percentage)


====
